---- MODULE Spec2Model ----
(***************************************************************************)
(* Model of the stochastic cliff-walking gridworld, class GridWorld of     *)
(* "Group HW 2/gridworld/cliffwalker.py".                                  *)
(*                                                                         *)
(* Numbers.  Probabilities are exact rationals.  random_action_p and       *)
(* risky_p_loss are held as numerators over PDen; the probability of a     *)
(* Transition is held as a numerator over One = 3 * PDen, so that          *)
(* 1.0 - random_action_p and random_action_p / 3 are both integers.        *)
(* p_cliff is the pair num/den, np.random.random() is u/RandDen with       *)
(* 0 <= u < RandDen.  y / height is Python 3 true division.                *)
(***************************************************************************)
EXTENDS Integers, Sequences, FiniteSets, TLC

\* ---- bounds of the model ----
MaxHeight == 3
MaxWidth == 5
PDen == 2
RandDen == 2

\* the probability 1.0 as a numerator over 3 * PDen
One == 3 * PDen

\* ---- class constants, lines 16-21 ----
ACTION_LEFT == 0
ACTION_RIGHT == 1
ACTION_UP == 2
ACTION_DOWN == 3
\* self.ACTIONS (ACTIONS is a reserved word of TLA+)
Actions == <<ACTION_LEFT, ACTION_RIGHT, ACTION_UP, ACTION_DOWN>>
FALL_REWARD == -40

\* Python's None, the value of a function that falls off its end
None == "None"

\* namedtuple State(y, x), line 7
State(sy, sx) == [y |-> sy, x |-> sx]

\* namedtuple Transition(state, prob, reward), line 10
Transition(ts, tp, tr) == [state |-> ts, prob |-> tp, reward |-> tr]

Max(a, b) == IF a >= b THEN a ELSE b
Min(a, b) == IF a <= b THEN a ELSE b

VARIABLES
    pc,                 \* "new": not constructed; "loop": inside the cliff loops; "ready": constructed
    height, width,      \* self.height, self.width
    random_action_p,    \* self.random_action_p, numerator over PDen
    risky_p_loss,       \* self.risky_p_loss, numerator over PDen
    initial_state,      \* self.initial_state
    goal_states,        \* self.goal_states
    cliff_states,       \* self.cliff_states
    x, y,               \* the loop variables of __init__: the next cell to visit
    s,                  \* the local s of the last loop iteration
    p_cliff,            \* the local p_cliff of the last loop iteration, [num, den]
    ret,                \* the last call of a query method and what it returned
    cur                 \* the caller's rollout: <<>> when none runs, else <<current state>>

vars == <<pc, height, width, random_action_p, risky_p_loss, initial_state,
          goal_states, cliff_states, x, y, s, p_cliff, ret, cur>>

\* self.risky_goal_states = {} (line 31): empty in every instance
risky_goal_states == {}

\* ---- inputs ----
Heights == 0..MaxHeight
Widths == 0..MaxWidth
\* -1/PDen and (PDen+1)/PDen lie outside [0,1]
ProbArgs == -1..(PDen + 1)
RiskyArgs == {-1, 1}
\* states handed to the query methods: the grid and a ring of cells around it
QueryStates == {State(qy, qx) : qy \in -1..height, qx \in -1..width}
\* action codes handed to the query methods: the four actions, -1 and 4
QueryActions == -1..4

NoCall == [op |-> "none", s |-> State(0, 0), a |-> 0, err |-> "none"]

Init ==
    /\ pc = "new"
    /\ height = 0 /\ width = 0
    /\ random_action_p = 0 /\ risky_p_loss = 0
    /\ initial_state = State(0, 0)
    /\ goal_states = {}
    /\ cliff_states = {}
    /\ x = 0 /\ y = 0
    /\ s = State(0, 0)
    /\ p_cliff = [num |-> 0, den |-> 1]
    /\ ret = NoCall
    /\ cur = <<>>

\* ---- __init__, lines 24-46 ----

\* bool(x > 1 and y > 0 and x < width-2 and y < height-1), line 41
InteriorNoCheck(cy, cx) == TRUE
Interior(cy, cx) == cx > 1 /\ cy > 0 /\ cx < width - 2 /\ cy < height - 1

\* 0.1 * (y / height)**2 * bool(...), line 41, as num/den
PCliffFloorDiv(cy, cx) ==
    [num |-> (cy \div height) * (cy \div height) * (IF Interior(cy, cx) THEN 1 ELSE 0),
     den |-> 10]
PCliff(cy, cx) ==
    [num |-> cy * cy * (IF Interior(cy, cx) THEN 1 ELSE 0),
     den |-> 10 * height * height]

\* np.random.random() < p_cliff, line 45, for the draw u / RandDen
DrawBelow(u, p) == u * p.den < p.num * RandDen

\* lines 26-37: the fields, and entry into the loops when they have a first cell
GridWorldInit(h, w, rap, rpl) ==
    /\ pc = "new"
    /\ height' = h /\ width' = w
    /\ risky_p_loss' = rpl
    /\ random_action_p' = rap
    /\ initial_state' = State(h - 1, 0)
    /\ goal_states' = {State(h - 1, w - 1)}
    /\ cliff_states' = {}
    /\ x' = 0 /\ y' = 0
    /\ pc' = IF h /= 1 /\ w > 0 /\ h > 0 THEN "loop" ELSE "ready"
    /\ UNCHANGED <<s, p_cliff, ret, cur>>

\* lines 38-46: one iteration of the loops, for the cell (y, x)
CliffTrial(u) ==
    /\ pc = "loop"
    /\ s' = State(y, x)
    /\ p_cliff' = PCliff(y, x)
    /\ IF State(y, x) = initial_state \/ State(y, x) \in goal_states
         THEN UNCHANGED cliff_states
         ELSE IF DrawBelow(u, PCliff(y, x))
                THEN cliff_states' = cliff_states \cup {State(y, x)}
                ELSE UNCHANGED cliff_states
    /\ IF y + 1 < height
         THEN y' = y + 1 /\ x' = x /\ pc' = "loop"
         ELSE /\ y' = 0
              /\ x' = x + 1
              /\ pc' = IF x + 1 < width THEN "loop" ELSE "ready"
    /\ UNCHANGED <<height, width, random_action_p, risky_p_loss, initial_state,
                   goal_states, ret, cur>>

\* ---- states, lines 48-55 ----

\* the inner loop "for x in range(self.width)" of row sy, from column sx on
RECURSIVE StatesRowAll(_, _)
StatesRowAll(sy, sx) ==
    IF sx >= width THEN <<>>
    ELSE <<State(sy, sx)>> \o StatesRowAll(sy, sx + 1)
RECURSIVE StatesRow(_, _)
StatesRow(sy, sx) ==
    IF sx >= width THEN <<>>
    ELSE (IF State(sy, sx) \in cliff_states THEN <<>> ELSE <<State(sy, sx)>>)
         \o StatesRow(sy, sx + 1)

\* the outer loop "for y in range(self.height)", from row sy on
RECURSIVE StatesRows(_)
StatesRows(sy) ==
    IF sy >= height THEN <<>>
    ELSE StatesRow(sy, 0) \o StatesRows(sy + 1)

\* everything one iteration over states() yields, in order
states == StatesRows(0)

\* ---- target_state, lines 57-67 ----
target_state_unclamped(st, a) ==
    IF a = ACTION_LEFT THEN State(st.y, st.x - 1)
    ELSE IF a = ACTION_RIGHT THEN State(st.y, st.x + 1)
    ELSE IF a = ACTION_UP THEN State(st.y - 1, st.x)
    ELSE IF a = ACTION_DOWN THEN State(st.y + 1, st.x)
    ELSE None
target_state(st, a) ==
    IF a = ACTION_LEFT THEN State(st.y, Max(st.x - 1, 0))
    ELSE IF a = ACTION_RIGHT THEN State(st.y, Min(st.x + 1, width - 1))
    ELSE IF a = ACTION_UP THEN State(Max(st.y - 1, 0), st.x)
    ELSE IF a = ACTION_DOWN THEN State(Min(st.y + 1, height - 1), st.x)
    ELSE None

\* ---- transitions, lines 69-100 ----

\* next(iter(self.goal_states)), lines 78 and 92: goal_states has one member
NextGoal == CHOOSE g \in goal_states : TRUE

\* line 75: the list of a goal state, the same for every action
GoalListStepCost(st) == <<Transition(st, One, -1)>>
GoalList(st) == <<Transition(st, One, 0)>>

\* lines 79-80: the list of a risky goal state, the same for every action
RiskyList ==
    <<Transition(NextGoal, 3 * risky_p_loss, -50),
      Transition(NextGoal, One - 3 * risky_p_loss, 100)>>

\* line 95: p = 1.0 - self.random_action_p if a_ == a else self.random_action_p / 3
ActionProbUndivided(a, a_) ==
    IF a_ = a THEN One - 3 * random_action_p ELSE 3 * random_action_p
ActionProb(a, a_) ==
    IF a_ = a THEN One - 3 * random_action_p ELSE random_action_p

\* lines 88-94 and 97: the Transition of the executed action a_ under the nominal action a
OutcomeNoFall(st, a, a_) ==
    Transition(target_state(st, a_), ActionProb(a, a_), -1)
Outcome(st, a, a_) ==
    IF target_state(st, a_) \in cliff_states
      THEN Transition(NextGoal, ActionProb(a, a_), FALL_REWARD)
      ELSE Transition(target_state(st, a_), ActionProb(a, a_), -1)

\* lines 84-97: transitions_actions of the nominal action a; "if p != 0" keeps an entry
TransitionsActionsKeepAll(st, a) ==
    [i \in 1..Len(Actions) |-> Outcome(st, a, Actions[i])]
TransitionsActions(st, a) ==
    SelectSeq([i \in 1..Len(Actions) |-> Outcome(st, a, Actions[i])],
              LAMBDA t : t.prob /= 0)

\* the list of lists transitions(s) returns; the list of action a is element a + 1
transitions(st) ==
    IF st \in goal_states
      THEN [i \in 1..Len(Actions) |-> GoalList(st)]
    ELSE IF st \in risky_goal_states
      THEN [i \in 1..Len(Actions) |-> RiskyList]
    ELSE [i \in 1..Len(Actions) |-> TransitionsActions(st, Actions[i])]

\* ---- sample_transition, lines 102-106 ----

\* Python's list index a into the 4 lists of transitions(s), as a position
\* 1..4: a negative index counts from the end; 0 stands for IndexError
ListIndex(a) ==
    IF 0 <= a /\ a < Len(Actions) THEN a + 1
    ELSE IF -Len(Actions) <= a /\ a < 0 THEN a + Len(Actions) + 1
    ELSE 0

RECURSIVE SumOfProbs(_)
SumOfProbs(trans) ==
    IF trans = <<>> THEN 0 ELSE Head(trans).prob + SumOfProbs(Tail(trans))

\* np.random.choice(len(trans), p=state_probs), line 106: ValueError when a
\* probability is negative or the probabilities do not sum to 1
ChoiceRejects(trans) ==
    \/ \E i \in 1..Len(trans) : trans[i].prob < 0
    \/ SumOfProbs(trans) /= One

\* the positions np.random.choice can draw: those of positive probability
ChoiceDraws(trans) == {k \in 1..Len(trans) : trans[k].prob > 0}

\* sample_transition(st, a) when np.random.choice draws position k
sample_transition_first_list(st, a, k) ==
    IF ListIndex(a) = 0 THEN [err |-> "IndexError"]
    ELSE IF ChoiceRejects(transitions(st)[ListIndex(a)]) THEN [err |-> "ValueError"]
    ELSE [err |-> "none", val |-> transitions(st)[1][k]]
sample_transition(st, a, k) ==
    IF ListIndex(a) = 0 THEN [err |-> "IndexError"]
    ELSE IF ChoiceRejects(transitions(st)[ListIndex(a)]) THEN [err |-> "ValueError"]
    ELSE [err |-> "none", val |-> transitions(st)[ListIndex(a)][k]]

\* the draws of sample_transition(st, a): one outcome when it raises
SampleDraws(st, a) ==
    IF ListIndex(a) = 0 \/ ChoiceRejects(transitions(st)[ListIndex(a)])
      THEN {1}
      ELSE ChoiceDraws(transitions(st)[ListIndex(a)])

\* ---- calls of the query methods on a constructed instance ----
\* The caller is sequential: it makes a call, holds what the call returned in
\* ret, and lets go of it (Discard) before its next call.  states() may be
\* iterated again while the previous iteration's result is still held.
\* A rollout is the caller's loop s = initial_state; t = sample_transition(s, a);
\* s = t.state; ...: cur holds s, ret holds t until the loop goes on.

\* list(world.states()), with what the previous such call gave (<<>> wrapped: none yet)
CallStates ==
    /\ pc = "ready"
    /\ ret.op \in {"none", "states"}
    /\ ret' = [op |-> "states", s |-> State(0, 0), a |-> 0, err |-> "none",
               val |-> states,
               before |-> IF ret.op = "states" THEN <<ret.val>> ELSE <<>>]
    /\ UNCHANGED <<pc, height, width, random_action_p, risky_p_loss, initial_state,
                   goal_states, cliff_states, x, y, s, p_cliff, cur>>

\* world.target_state(st, a)
CallTargetState(st, a) ==
    /\ pc = "ready"
    /\ ret.op = "none"
    /\ ret' = [op |-> "target_state", s |-> st, a |-> a, err |-> "none",
               val |-> target_state(st, a)]
    /\ UNCHANGED <<pc, height, width, random_action_p, risky_p_loss, initial_state,
                   goal_states, cliff_states, x, y, s, p_cliff, cur>>

\* world.transitions(st)
CallTransitions(st) ==
    /\ pc = "ready"
    /\ ret.op = "none"
    /\ ret' = [op |-> "transitions", s |-> st, a |-> 0, err |-> "none",
               val |-> transitions(st)]
    /\ UNCHANGED <<pc, height, width, random_action_p, risky_p_loss, initial_state,
                   goal_states, cliff_states, x, y, s, p_cliff, cur>>

\* a rollout begins: s = world.initial_state
RolloutStart ==
    /\ pc = "ready"
    /\ ret.op = "none"
    /\ cur = <<>>
    /\ cur' = <<initial_state>>
    /\ ret' = [op |-> "rollout", s |-> initial_state, a |-> 0, err |-> "none"]
    /\ UNCHANGED <<pc, height, width, random_action_p, risky_p_loss, initial_state,
                   goal_states, cliff_states, x, y, s, p_cliff>>

\* one step of the rollout: t = world.sample_transition(s, a); s = t.state.
\* When the call raises, the caller's s stays what it was.
CallSampleTransition(a, k) ==
    /\ pc = "ready"
    /\ cur /= <<>>
    /\ ret.op = "rollout"
    /\ k \in SampleDraws(cur[1], a)
    /\ LET t == sample_transition(cur[1], a, k)
       IN /\ ret' = [op |-> "sample_transition", s |-> cur[1], a |-> a] @@ t
          /\ cur' = IF t.err = "none" THEN <<t.val.state>> ELSE cur
    /\ UNCHANGED <<pc, height, width, random_action_p, risky_p_loss, initial_state,
                   goal_states, cliff_states, x, y, s, p_cliff>>

\* the rollout goes on: the caller lets go of t and keeps s
RolloutContinue ==
    /\ pc = "ready"
    /\ cur /= <<>>
    /\ ret.op = "sample_transition"
    /\ ret' = [op |-> "rollout", s |-> cur[1], a |-> 0, err |-> "none"]
    /\ UNCHANGED <<pc, height, width, random_action_p, risky_p_loss, initial_state,
                   goal_states, cliff_states, x, y, s, p_cliff, cur>>

\* the caller drops the value it holds, and with it the rollout it was running
Discard ==
    /\ pc = "ready"
    /\ ret.op /= "none"
    /\ ret' = NoCall
    /\ cur' = <<>>
    /\ UNCHANGED <<pc, height, width, random_action_p, risky_p_loss, initial_state,
                   goal_states, cliff_states, x, y, s, p_cliff>>

Next ==
    \/ \E h \in Heights, w \in Widths, rap \in ProbArgs, rpl \in RiskyArgs :
          GridWorldInit(h, w, rap, rpl)
    \/ \E u \in 0..(RandDen - 1) : CliffTrial(u)
    \/ CallStates
    \/ \E st \in QueryStates, a \in QueryActions : CallTargetState(st, a)
    \/ \E st \in QueryStates : CallTransitions(st)
    \/ RolloutStart
    \/ \E a \in QueryActions, k \in 1..Len(Actions) : CallSampleTransition(a, k)
    \/ RolloutContinue
    \/ Discard

Spec == Init /\ [][Next]_vars

\* ---- vocabulary of the properties ----

\* the coordinates of st lie in [0,height) x [0,width)
InGrid(st) == 0 <= st.y /\ st.y < height /\ 0 <= st.x /\ st.x < width

\* the construction contract: height >= 1, width >= 1, both probabilities in [0,1]
ValidConfiguration ==
    /\ height >= 1 /\ width >= 1
    /\ 0 <= random_action_p /\ random_action_p <= PDen
    /\ 0 <= risky_p_loss /\ risky_p_loss <= PDen

\* the sum of the probabilities of a list of Transitions
RECURSIVE SumProb(_)
SumProb(list) == IF list = <<>> THEN 0 ELSE Head(list).prob + SumProb(Tail(list))

\* the list of the action with code a in what transitions returned
ListOf(a) == ret.val[a + 1]

ActionCodes == {ACTION_LEFT, ACTION_RIGHT, ACTION_UP, ACTION_DOWN}

\* ---- C1 ----
\* C1: for random_action_p in [0,1], every in-bounds non-goal state and every
\* action, the probabilities of the entries of transitions(s)[a] sum to 1
\* (exact rational arithmetic; the code's floats agree up to rounding).
C1_ProbabilitiesSumToOne ==
    (/\ ret.op = "transitions"
     /\ 0 <= random_action_p /\ random_action_p <= PDen
     /\ InGrid(ret.s)
     /\ ret.s \notin goal_states)
    => \A a \in ActionCodes : SumProb(ListOf(a)) = One

\* transitions of an in-bounds non-goal state next to a cliff, under
\* random_action_p = 1, where the nominal action's entry is dropped
C1_Witness ==
    /\ ret.op = "transitions"
    /\ random_action_p = PDen
    /\ InGrid(ret.s)
    /\ ret.s \notin goal_states
    /\ cliff_states /= {}
    /\ \A a \in ActionCodes : Len(ListOf(a)) = 3
    /\ \E a \in ActionCodes : \E i \in 1..3 : ListOf(a)[i].reward = FALL_REWARD

\* ---- C2 ----
\* C2: goal states are absorbing: for a goal state g, transitions(g) has 4
\* lists, each exactly [(g, 1.0, 0)], whatever random_action_p, risky_p_loss
\* and the cliff layout are.
C2_GoalAbsorbing ==
    (ret.op = "transitions" /\ ret.s \in goal_states)
    => /\ Len(ret.val) = 4
       /\ \A a \in ActionCodes :
            ListOf(a) = <<[state |-> ret.s, prob |-> One, reward |-> 0]>>

\* transitions of the goal state of a grid with a cliff and action noise
C2_Witness ==
    /\ ret.op = "transitions"
    /\ ret.s = State(height - 1, width - 1)
    /\ ret.s \in goal_states
    /\ cliff_states /= {}
    /\ random_action_p = 1

\* ---- C3 ----
\* C3: during and after construction cliff_states never contains
\* (height-1, 0), never contains (height-1, width-1), never contains a cell
\* outside 1 <= x <= width-3, 1 <= y <= height-2, and is empty when height = 1.
C3_CliffsInterior ==
    pc /= "new"
    => /\ State(height - 1, 0) \notin cliff_states
       /\ initial_state \notin cliff_states
       /\ State(height - 1, width - 1) \notin cliff_states
       /\ goal_states \cap cliff_states = {}
       /\ \A c \in cliff_states :
            /\ 1 <= c.x /\ c.x <= width - 3
            /\ 1 <= c.y /\ c.y <= height - 2
       /\ (height = 1 => cliff_states = {})

\* a finished construction that sampled a cliff
C3_Witness == pc = "ready" /\ cliff_states /= {}

\* ---- C4 ----
\* the cells of the band lo <= x <= width-3, 1 <= y <= height-2
Band(lo) ==
    {State(cy, cx) : cy \in 1..(height - 2), cx \in lo..(width - 3)}

\* the iteration about to run for the cell (y, x) can add it to cliff_states
TrialCanSucceed ==
    ENABLED (\E u \in 0..(RandDen - 1) :
                CliffTrial(u) /\ State(y, x) \in cliff_states')

\* the last iteration ran for cell s with p_cliff = 0.1 * (s.y / height)^2 > 0
TrialProbability ==
    /\ p_cliff.num > 0
    /\ p_cliff.num * 10 * height * height = s.y * s.y * p_cliff.den

\* C4 (as stated): when height != 1 every cell with 1 <= x <= width-3 and
\* 1 <= y <= height-2, column x = 1 included, gets a trial of success
\* probability 0.1 * (y/height)^2 and can become a cliff (stated for the
\* configurations of the construction contract).
C4_TrialInSpecBand ==
    ValidConfiguration
    => /\ (pc = "loop" /\ State(y, x) \in Band(1)) => TrialCanSucceed
       /\ (pc \in {"loop", "ready"} /\ height /= 1 /\ s \in Band(1))
            => TrialProbability

\* C4 (amended): when height != 1 every cell with 2 <= x <= width-3 and
\* 1 <= y <= height-2 gets a trial of success probability
\* 0.1 * (y/height)^2 and can become a cliff; no cell of column x = 1 can.
C4_TrialInCodeBand ==
    /\ (pc = "loop" /\ State(y, x) \in Band(2)) => TrialCanSucceed
    /\ (pc \in {"loop", "ready"} /\ height /= 1 /\ s \in Band(2)) => TrialProbability
    /\ (pc = "loop" /\ x = 1) => ~TrialCanSucceed
    /\ \A c \in cliff_states : c.x /= 1

\* a construction outcome of the largest grid in which every cell of the
\* band 2 <= x <= width-3, 1 <= y <= height-2 is a cliff
C4_Witness ==
    /\ pc = "ready"
    /\ height = MaxHeight /\ width = MaxWidth
    /\ Band(2) /= {}
    /\ cliff_states = Band(2)

\* ---- C5 ----
\* the probability the claim gives the executed action b under the nominal action a
NoiseProb(a, b) == IF b = a THEN One - 3 * random_action_p ELSE random_action_p

\* the entry the claim gives the executed action b: the fall to the goal with
\* reward -40 when the target is a cliff, else the target with reward -1
NoiseEntry(st, a, b) ==
    IF target_state(st, b) \in cliff_states
      THEN [state |-> State(height - 1, width - 1), prob |-> NoiseProb(a, b),
            reward |-> -40]
      ELSE [state |-> target_state(st, b), prob |-> NoiseProb(a, b), reward |-> -1]

\* the executed actions of nonzero probability under the nominal action a
Executed(a) == {b \in ActionCodes : NoiseProb(a, b) /= 0}

\* C5: for a state that is no goal (and no risky goal), transitions(s)[a]
\* has one entry per executed action a' of nonzero probability and no other:
\* probability 1 - random_action_p if a' = a, else random_action_p / 3;
\* destination the goal and reward -40 if deterministic_target(s, a') is a
\* cliff, else destination deterministic_target(s, a') and reward -1.
C5_GeneralCase ==
    (ret.op = "transitions" /\ ret.s \notin goal_states /\ ret.s \notin risky_goal_states)
    => \A a \in ActionCodes :
         /\ Len(ListOf(a)) = Cardinality(Executed(a))
         /\ \A b \in Executed(a) :
              Cardinality({i \in 1..Len(ListOf(a)) : ListOf(a)[i] = NoiseEntry(ret.s, a, b)})
                = Cardinality({c \in Executed(a) :
                                 NoiseEntry(ret.s, a, c) = NoiseEntry(ret.s, a, b)})

\* transitions of an in-bounds state beside a cliff, under action noise: the
\* nominal action RIGHT falls, with probability 1 - random_action_p
C5_Witness ==
    /\ ret.op = "transitions"
    /\ InGrid(ret.s)
    /\ ret.s \notin goal_states
    /\ 0 < random_action_p /\ random_action_p < PDen
    /\ State(ret.s.y, ret.s.x + 1) \in cliff_states
    /\ ListOf(ACTION_RIGHT)[2] =
         [state |-> State(height - 1, width - 1),
          prob |-> One - 3 * random_action_p, reward |-> -40]
    /\ ListOf(ACTION_RIGHT)[1].reward = -1

\* ---- C6 ----
\* C6: with random_action_p in [0,1], every entry of transitions(s)[a] has a
\* probability in (0,1]; entries are never merged: a non-goal state has
\* exactly 4 entries per action when 0 < random_action_p < 1, and exactly 1,
\* of probability 1.0 and the nominal action's outcome, when
\* random_action_p = 0.
C6_EntriesPositiveUnmerged ==
    (ret.op = "transitions" /\ 0 <= random_action_p /\ random_action_p <= PDen)
    => \A a \in ActionCodes :
         /\ \A i \in 1..Len(ListOf(a)) :
              0 < ListOf(a)[i].prob /\ ListOf(a)[i].prob <= One
         /\ (ret.s \notin goal_states /\ 0 < random_action_p /\ random_action_p < PDen)
              => Len(ListOf(a)) = 4
         /\ (ret.s \notin goal_states /\ random_action_p = 0)
              => /\ Len(ListOf(a)) = 1
                 /\ ListOf(a)[1].prob = One
                 /\ ListOf(a)[1] = NoiseEntry(ret.s, a, a)

\* transitions of the corner (0, 0) under action noise: LEFT and UP both
\* clamp to (0, 0), and the list still has 4 entries
C6_Witness ==
    /\ ret.op = "transitions"
    /\ width > 1 /\ height > 1
    /\ ret.s = State(0, 0)
    /\ 0 < random_action_p /\ random_action_p < PDen
    /\ Len(ListOf(ACTION_LEFT)) = 4
    /\ ListOf(ACTION_LEFT)[1].state = State(0, 0)
    /\ ListOf(ACTION_LEFT)[3].state = State(0, 0)

\* ---- C7 ----
\* the cell one step from st in direction a, staying at st when the step leaves the grid
Step(st, a) ==
    IF a = ACTION_LEFT THEN (IF st.x = 0 THEN st ELSE State(st.y, st.x - 1))
    ELSE IF a = ACTION_RIGHT THEN (IF st.x = width - 1 THEN st ELSE State(st.y, st.x + 1))
    ELSE IF a = ACTION_UP THEN (IF st.y = 0 THEN st ELSE State(st.y - 1, st.x))
    ELSE (IF st.y = height - 1 THEN st ELSE State(st.y + 1, st.x))

\* C7: for an in-bounds state and an action in {LEFT, RIGHT, UP, DOWN},
\* deterministic_target returns the state one cell away in that direction,
\* clamped to the grid: the result is in bounds, only the coordinate of the
\* moved dimension can change, and moving off an edge returns the same state.
C7_TargetClamped ==
    (ret.op = "target_state" /\ InGrid(ret.s) /\ ret.a \in ActionCodes)
    => /\ InGrid(ret.val)
       /\ ret.val = Step(ret.s, ret.a)
       /\ (ret.a \in {ACTION_LEFT, ACTION_RIGHT} => ret.val.y = ret.s.y)
       /\ (ret.a \in {ACTION_UP, ACTION_DOWN} => ret.val.x = ret.s.x)

\* a move off the right edge of a grid with more than one column
C7_Witness ==
    /\ ret.op = "target_state"
    /\ width > 1
    /\ InGrid(ret.s)
    /\ ret.s.x = width - 1
    /\ ret.a = ACTION_RIGHT
    /\ ret.val = ret.s

\* ---- C8 ----
\* C8: enumerate_states() yields exactly height*width - len(cliff_states)
\* states, all in the grid, none in cliff_states, in strict row-major order
\* (hence distinct), and iterating again yields the same sequence.
C8_StatesEnumeration ==
    ret.op = "states"
    => /\ Len(ret.val) = height * width - Cardinality(cliff_states)
       /\ \A i \in 1..Len(ret.val) :
            InGrid(ret.val[i]) /\ ret.val[i] \notin cliff_states
       /\ \A i, j \in 1..Len(ret.val) :
            i < j => \/ ret.val[i].y < ret.val[j].y
                     \/ ret.val[i].y = ret.val[j].y /\ ret.val[i].x < ret.val[j].x
       /\ (ret.before /= <<>> => ret.before[1] = ret.val)

\* a second iteration over the states of a grid with a cliff
C8_Witness ==
    /\ ret.op = "states"
    /\ cliff_states /= {}
    /\ ret.before /= <<>>
    /\ Len(ret.val) = height * width - 1

\* ---- C9 ----
\* C9: construction with height < 1, width < 1, random_action_p outside
\* [0,1] or risky_p_loss outside [0,1] fails (InvalidConfiguration) and
\* never yields a usable model.
C9_InvalidConfigurationRejected ==
    pc = "ready" => ValidConfiguration

\* ---- C10 ----
\* C10: transitions(state) and deterministic_target(state, action) called
\* on a constructed model with a state outside [0,height) x [0,width) fail
\* with an OutOfBounds error instead of returning a result.
C10_OutOfBoundsRejected ==
    (/\ ValidConfiguration
     /\ \/ ret.op = "transitions"
        \/ ret.op = "target_state" /\ ret.a \in ActionCodes
     /\ ~InGrid(ret.s))
    => ret.err = "OutOfBounds"

\* ---- C11 ----
\* C11: deterministic_target(state, action) and sample_transition(state,
\* action) called on a constructed model, with an in-bounds state and an
\* action code outside {0, 1, 2, 3}, fail with an InvalidAction error: no
\* value is returned, not None and not an entry of another action's list.
C11_InvalidActionRejected ==
    (/\ ValidConfiguration
     /\ ret.op \in {"target_state", "sample_transition"}
     /\ InGrid(ret.s)
     /\ ret.a \notin ActionCodes)
    => ret.err = "InvalidAction"

\* ---- C12 ----
\* in a rollout the current state is in the grid and no cliff, and a step
\* with a valid action returned an entry of transitions(current)[a], whose
\* destination is the new current state
C12_RolloutStep ==
    ValidConfiguration
    => /\ cur /= <<>> => (InGrid(cur[1]) /\ cur[1] \notin cliff_states)
       /\ (ret.op = "rollout" /\ ret.s = initial_state) => cur = <<State(height - 1, 0)>>
       /\ (ret.op = "sample_transition" /\ ret.a \in ActionCodes)
            => /\ ret.err = "none"
               /\ \E i \in 1..Len(transitions(ret.s)[ret.a + 1]) :
                    transitions(ret.s)[ret.a + 1][i] = ret.val
               /\ cur = <<ret.val.state>>

\* a rollout that is at the goal state is at the goal state after its next step
C12_GoalStays ==
    (/\ ValidConfiguration
     /\ cur /= <<>> /\ cur' /= <<>>
     /\ cur[1] = State(height - 1, width - 1))
    => cur'[1] = State(height - 1, width - 1)

\* C12: in a rollout from initial_state under sample_transition with valid
\* actions, each step's outcome is an entry of transitions(current)[a], the
\* current state is always inside the grid and never a cliff, and once it is
\* the goal state it stays the goal state (for the configurations of the
\* construction contract).
C12_Rollout == []C12_RolloutStep /\ [][C12_GoalStays]_vars

\* a rollout in a grid with a cliff that reached the goal state and took a
\* further step there
C12_Witness ==
    /\ ValidConfiguration
    /\ width > 1
    /\ cliff_states /= {}
    /\ ret.op = "sample_transition"
    /\ ret.a \in ActionCodes
    /\ ret.s = State(height - 1, width - 1)
    /\ ret.val.reward = 0
    /\ cur = <<ret.s>>

====
